---- MODULE Spec2Model ----
(***************************************************************************)
(* Model of the Shopify App Store extraction pipeline:                     *)
(*   shopify/products_by_category.py  extract_products_from_category       *)
(*   shopify/product_detail.py        enrich_product_row, _extract_price   *)
(*   shopify/reviews_extractor.py     extract_shopify_reviews              *)
(*   src/main.py                      load_categories_from_nav,            *)
(*                                    select_categories,                   *)
(*                                    scrape_shopify_category,             *)
(*                                    run_shopify_actor                    *)
(*                                                                         *)
(* Text is a sequence of tokens.  A token is one character, except that a  *)
(* URL is written with one token per path word and the token HOST for the  *)
(* prefix "https://apps.shopify.com/".  The Python value None is the       *)
(* string "None".                                                          *)
(***************************************************************************)
EXTENDS Integers, Sequences, FiniteSets, TLC

VARIABLES
    \* ---- run_shopify_actor (src/main.py) ----
    nav_data,               \* the category document at nav_path
    selected_categories,    \* effective setting of the same name
    max_categories,         \* effective setting of the same name
    browser,                \* "None" until launch_browser has returned
    pc,                     \* position of run_shopify_actor
    categories,             \* the selected categories
    products_per_category,  \* effective limit
    export_on,              \* export_csv or export_xlsx
    cidx,                   \* index of the category the loop is at
    rows,                   \* rows the listing extractor returned for it
    detail,                 \* the detail pages the browser showed for them
    apps,                   \* records scrape_shopify_category returned
    aidx,                   \* index of the record the inner loop is at
    pushed, seen_urls, skipped_dupes,
    per_cat_results, all_results_for_files, category_stats,
    dataset,                \* records accepted by Actor.push_data
    total_fed,              \* records the inner loop has taken from apps
    summary,                \* the run summary, "None" until produced
    \* ---- extract_products_from_category called on its own ----
    lcall,                  \* the call: page, category, limit, result
    \* ---- enrich_product_row called on its own ----
    ecall,                  \* the call: row, detail page, result
    \* ---- _extract_price called on its own ----
    pcall,                  \* the call: detail page content, result
    \* ---- extract_shopify_reviews (shopify/reviews_extractor.py) ----
    rpc,                    \* position of extract_shopify_reviews
    app,                    \* the shared item record
    max_reviews, max_pages,
    jsonld_reviews,         \* what _extract_json_ld_reviews returns
    jidx,                   \* index into jsonld_reviews
    reviews, seen,          \* the locals of the same name
    clock,                  \* time.time() - start
    pidx,                   \* DOM pass iteration
    cards, scan_limit, i,   \* card locator contents, scan bound, index
    rstat                   \* counters and flags of the harvest

startVars == <<nav_data, selected_categories, max_categories, browser>>
runVars == <<startVars, pc, categories, products_per_category, export_on, cidx,
             rows, detail, apps, aidx, pushed, seen_urls, skipped_dupes,
             per_cat_results, all_results_for_files, category_stats,
             dataset, total_fed, summary>>
revVars == <<rpc, app, max_reviews, max_pages, jsonld_reviews, jidx, reviews,
             seen, clock, pidx, cards, scan_limit, i, rstat>>
vars == <<runVars, lcall, ecall, pcall, revVars>>
otherThanRun == <<lcall, ecall, pcall, revVars>>
otherThanReviews == <<runVars, lcall, ecall, pcall>>

-----------------------------------------------------------------------------
(* Bounds of the model *)

MaxCats == 2        \* categories in a run
MaxNavEntries == 2  \* entries of the category document at start-up
MaxLinks == 2       \* links of a category page in a run
MaxListLinks == 3   \* links of a category page, listing extractor alone
MaxLimit == 2       \* largest limit / products_per_category / max_reviews
MaxJsonLd == 2      \* structured reviews on a page
MaxCards == 2       \* DOM cards on a page
MaxPages == 2       \* largest max_pages
MaxClock == 2       \* largest elapsed time
TimeBudget == 1     \* time_budget_sec, in clock ticks

-----------------------------------------------------------------------------
(* Text helpers: what the Python string methods do on token sequences *)

None == "None"
WS == {" "}
HOST == "https://apps.shopify.com/"

Min(a, b) == IF a <= b THEN a ELSE b

RECURSIVE LStrip(_, _)
LStrip(s, cs) ==
    IF s = <<>> THEN s
    ELSE IF Head(s) \in cs THEN LStrip(Tail(s), cs) ELSE s

RECURSIVE RStrip(_, _)
RStrip(s, cs) ==
    IF s = <<>> THEN s
    ELSE IF s[Len(s)] \in cs THEN RStrip(SubSeq(s, 1, Len(s) - 1), cs) ELSE s

\* str.strip(chars)
Strip(s, cs) == RStrip(LStrip(s, cs), cs)

\* str.split(sep)[0]
RECURSIVE SplitFirst(_, _)
SplitFirst(s, sep) ==
    IF s = <<>> THEN s
    ELSE IF Head(s) = sep THEN <<>>
    ELSE <<Head(s)>> \o SplitFirst(Tail(s), sep)

\* str.replace(tok, "")
RemoveAll(s, tok) == SelectSeq(s, LAMBDA t : t # tok)

\* s[:n]
Prefix(s, n) == SubSeq(s, 1, Min(n, Len(s)))

\* c repeated n times
Rep(c, n) == [k \in 1..n |-> c]

\* dict with key k set to v
Put(r, k, v) == (k :> v) @@ r

Has(r, k) == k \in DOMAIN r

\* all sequences over S of length at most n
SeqsUpTo(S, n) == UNION {[1..k -> S] : k \in 0..n}

-----------------------------------------------------------------------------
(* core/utils.py *)

\* save_debug awaited from a coroutine: the capture is performed.
\* d is the number of captures performed so far.
save_debug(d) == d + 1

\* save_debug called from the synchronous reviews extractor without await:
\* the call only builds a coroutine object that is never run, so nothing
\* is captured.
save_debug_not_awaited(d) == d

-----------------------------------------------------------------------------
(* shopify/products_by_category.py *)

NonItemSlugs == {<<"categories">>, <<"pricing">>, <<"blog">>, <<"partners">>}

\* lines 52-53 without .split("?")[0]
SlugOfKeepQuery(href) ==
    LET slug_part == Strip(RemoveAll(href, HOST), {"/"})
    IN  Strip(SplitFirst(slug_part, "/"), WS)

\* href.replace(HOST, "").split("?")[0].strip("/") then .split("/")[0].strip()
SlugOf(href) ==
    LET slug_part == Strip(SplitFirst(RemoveAll(href, HOST), "?"), {"/"})
    IN  Strip(SplitFirst(slug_part, "/"), WS)

ProductUrl(slug) == <<HOST>> \o slug

\* name = inner_text().strip(); slug.replace("-", " ").title() when the
\* text is empty or a single character
NameOf(text, slug) ==
    LET name == Strip(text, WS)
    IN  IF name = <<>> \/ Len(name) < 2 THEN <<"Title:">> \o slug ELSE name

NewRow(category, name, product_url) ==
    [ apps_category       |-> Strip(category.name, WS),
      apps_url            |-> Strip(category.url, WS),
      description         |-> Strip(category.description, WS),
      recommended_product |-> name,
      products_url        |-> product_url,
      Product_description |-> "",
      Price               |-> "",
      rating              |-> "",
      reviews_count       |-> "" ]

\* the loop over links.nth(k), from link k on
RECURSIVE CollectRows(_, _, _, _, _, _)
CollectRows(links, k, seenUrls, acc, category, limit) ==
    IF k > Len(links) THEN acc
    ELSE
      LET href == links[k].href
          slug == SlugOf(href)
          product_url == ProductUrl(slug)
      IN  IF href = <<>> \/ Head(href) # HOST
            THEN CollectRows(links, k + 1, seenUrls, acc, category, limit)
          ELSE IF slug = <<>> \/ slug \in NonItemSlugs
            THEN CollectRows(links, k + 1, seenUrls, acc, category, limit)
          ELSE IF product_url \in seenUrls
            THEN CollectRows(links, k + 1, seenUrls, acc, category, limit)
          ELSE
            LET acc2 == Append(acc, NewRow(category,
                                   NameOf(links[k].text, slug), product_url))
            IN  IF Len(acc2) >= limit THEN acc2
                ELSE CollectRows(links, k + 1, seenUrls \cup {product_url},
                                 acc2, category, limit)

\* lines 13-35 without the check that guards the empty locator
extract_products_from_category_unguarded(pg, category, limit) ==
    IF ~pg.goto_ok
      THEN [raised |-> TRUE, rows |-> <<>>, debug |-> 0]
    ELSE IF ~pg.h2
      THEN [raised |-> FALSE, rows |-> <<>>, debug |-> save_debug(0)]
    ELSE
      LET links == IF Len(pg.container) = 0 THEN pg.sibling ELSE pg.container
      IN  [raised |-> Len(links) = 0,
           rows   |-> CollectRows(links, 1, {}, <<>>, category, limit),
           debug  |-> 0]

\* A category page: whether page.goto succeeds, whether the "Recommended"
\* h2 is there, the app links of its container and of the next sibling.
\* The result: raised, the rows returned, the captures performed.
extract_products_from_category(pg, category, limit) ==
    IF ~pg.goto_ok
      THEN [raised |-> TRUE, rows |-> <<>>, debug |-> 0]
    ELSE IF ~pg.h2
      THEN [raised |-> FALSE, rows |-> <<>>, debug |-> save_debug(0)]
    ELSE
      LET links == IF Len(pg.container) = 0 THEN pg.sibling ELSE pg.container
      IN  IF Len(links) = 0
            THEN [raised |-> FALSE, rows |-> <<>>, debug |-> save_debug(0)]
            ELSE [raised |-> FALSE,
                  rows   |-> CollectRows(links, 1, {}, <<>>, category, limit),
                  debug  |-> 0]

-----------------------------------------------------------------------------
(* shopify/product_detail.py *)

\* A detail page gives the outcome of each helper on it:
\*   goto_ok       page.goto succeeds
\*   developer     "raise", "absent", "text" (no link), "link"
\*   rating        "raise", "nodata", "data"
\*   description   "raise", or the text found (possibly "")
\*   price         "raise", or what _extract_price returns (possibly "")

\* lines 151-158: developer info, caught inside enrich_product_row
DeveloperStep(row, dp) ==
    LET name == IF dp.developer \in {"text", "link"} THEN "Dev Inc" ELSE None
        site == IF dp.developer = "link" THEN "https://dev.example" ELSE None
    IN  Put(Put(row, "developer_name", name), "developer_website", site)

\* lines 160-171 with the except branch losing its error marker
RatingStepNoMarker(row, dp) ==
    IF dp.rating = "raise"
      THEN Put(Put(Put(row, "rating", None), "reviews_count", None),
               "reviews_source", "shopify_app_store")
      ELSE Put(Put(Put(Put(row,
               "rating", IF dp.rating = "data" THEN "4.5" ELSE None),
               "reviews_count", IF dp.rating = "data" THEN "120" ELSE None),
               "reviews_source", "shopify_app_store"),
               "reviews_scraped_at", "now")

\* lines 160-171: rating and reviews count, caught inside enrich_product_row
RatingStep(row, dp) ==
    IF dp.rating = "raise"
      THEN Put(Put(Put(Put(row, "rating", None), "reviews_count", None),
               "reviews_source", "shopify_app_store"),
               "reviews_scrape_error", "repr(e)")
      ELSE Put(Put(Put(Put(row,
               "rating", IF dp.rating = "data" THEN "4.5" ELSE None),
               "reviews_count", IF dp.rating = "data" THEN "120" ELSE None),
               "reviews_source", "shopify_app_store"),
               "reviews_scraped_at", "now")

\* The result: whether the call raised, and the row as the call left it
\* (the row is mutated in place, so the caller sees it after a raise too).
enrich_product_row(row, dp) ==
    IF ~dp.goto_ok THEN [raised |-> TRUE, row |-> row]
    ELSE
      LET r2 == RatingStep(DeveloperStep(row, dp), dp)
      IN  IF dp.description = "raise" THEN [raised |-> TRUE, row |-> r2]
          ELSE
            LET r3 == Put(r2, "Product_description", dp.description)
            IN  IF dp.price = "raise" THEN [raised |-> TRUE, row |-> r3]
                ELSE [raised |-> FALSE, row |-> Put(r3, "Price", dp.price)]

\* _extract_price (lines 112-131) on the content of a detail page:
\*   closed            the page is gone, every locator call raises
\*   free_to_install   the locator "text=Free to install" matches
\*   free_plan         the locator "text=Free plan" matches
\*   main_found        "main" is there, so inner_text() returns
\*   main              the text of "main", one token per word, number,
\*                     blank or sign
PriceNumbers == {"9.99", "5", "9"}
PricePeriods == {"month", "mo", "year", "yr"}
FromWords == {"From", "from", "FROM"}      \* re.IGNORECASE

FreeToInstall == <<"Free", " ", "to", " ", "install">>
FreePlan == <<"Free", " ", "plan">>

\* \s* from position j on: the first position that holds no blank
RECURSIVE SkipWS(_, _)
SkipWS(t, j) ==
    IF j <= Len(t) /\ t[j] \in WS THEN SkipWS(t, j + 1) ELSE j

\* \$\s*\d+(?:\.\d+)? at position k: the position of the number, or 0
BareEnd(t, k) ==
    LET j == SkipWS(t, k + 1)
    IN  IF t[k] = "$" /\ j <= Len(t) /\ t[j] \in PriceNumbers THEN j ELSE 0

\* \$\s*\d+(?:\.\d+)?\s*(?:/|\sper\s)\s*(month|mo|year|yr) at position k:
\* the position of the period word, or 0
PeriodEnd(t, k) ==
    LET n == BareEnd(t, k)
        j == SkipWS(t, n + 1)
        AfterSep ==
          IF j > Len(t) THEN 0
          ELSE IF t[j] = "/" THEN SkipWS(t, j + 1)
          ELSE IF /\ t[j] \in {"per", "PER", "Per"} /\ j > n + 1
                  /\ j + 1 <= Len(t) /\ t[j + 1] \in WS
                 THEN SkipWS(t, j + 2)
          ELSE 0
    IN  IF n = 0 \/ AfterSep = 0 \/ AfterSep > Len(t) THEN 0
        ELSE IF t[AfterSep] \in PricePeriods THEN AfterSep ELSE 0

\* (From\s*)? before the "$" at position k: where the match starts
RECURSIVE BackWS(_, _)
BackWS(t, j) == IF j >= 1 /\ t[j] \in WS THEN BackWS(t, j - 1) ELSE j

FromStart(t, k) ==
    LET j == BackWS(t, k - 1)
    IN  IF j >= 1 /\ t[j] \in FromWords THEN j ELSE k

\* for each position of t, where the expression that starts there ends
BareEnds(t) == [k \in 1..Len(t) |-> BareEnd(t, k)]
PeriodEnds(t) == [k \in 1..Len(t) |-> PeriodEnd(t, k)]

\* re.search(...).group(0).strip(): the leftmost match, or <<>> for None
SearchPrice(t, ends) ==
    LET ks == {k \in 1..Len(t) : ends[k] # 0}
    IN  IF ks = {} THEN <<>>
        ELSE LET k == CHOOSE x \in ks : \A y \in ks : x <= y
             IN  Strip(SubSeq(t, FromStart(t, k), ends[k]), WS)

\* lines 112-131 with the two searches of lines 123-129 in the other order
extract_price_bare_first(pg) ==
    IF pg.closed THEN [raised |-> TRUE, price |-> <<>>]
    ELSE IF pg.free_to_install THEN [raised |-> FALSE, price |-> FreeToInstall]
    ELSE IF pg.free_plan THEN [raised |-> FALSE, price |-> FreePlan]
    ELSE IF ~pg.main_found THEN [raised |-> FALSE, price |-> <<>>]
    ELSE IF SearchPrice(pg.main, BareEnds(pg.main)) # <<>>
      THEN [raised |-> FALSE, price |-> SearchPrice(pg.main, BareEnds(pg.main))]
    ELSE [raised |-> FALSE, price |-> SearchPrice(pg.main, PeriodEnds(pg.main))]

\* lines 112-131
extract_price(pg) ==
    IF pg.closed THEN [raised |-> TRUE, price |-> <<>>]
    ELSE IF pg.free_to_install THEN [raised |-> FALSE, price |-> FreeToInstall]
    ELSE IF pg.free_plan THEN [raised |-> FALSE, price |-> FreePlan]
    ELSE IF ~pg.main_found THEN [raised |-> FALSE, price |-> <<>>]
    ELSE IF SearchPrice(pg.main, PeriodEnds(pg.main)) # <<>>
      THEN [raised |-> FALSE, price |-> SearchPrice(pg.main, PeriodEnds(pg.main))]
    ELSE [raised |-> FALSE, price |-> SearchPrice(pg.main, BareEnds(pg.main))]

-----------------------------------------------------------------------------
(* src/main.py: scrape_shopify_category *)

\* lines 295-304 with the except branch dropping the row
RECURSIVE EnrichRowsDropping(_, _)
EnrichRowsDropping(rs, dps) ==
    IF rs = <<>> THEN <<>>
    ELSE
      LET e == enrich_product_row(Head(rs), Head(dps))
      IN  (IF e.raised THEN <<>> ELSE <<e.row>>)
          \o EnrichRowsDropping(Tail(rs), Tail(dps))

\* lines 295-304: the loop over rows; dps[k] is the detail page of rs[k]
RECURSIVE EnrichRows(_, _)
EnrichRows(rs, dps) ==
    IF rs = <<>> THEN <<>>
    ELSE
      LET e == enrich_product_row(Head(rs), Head(dps))
      IN  <<IF e.raised THEN Put(e.row, "enrich_error", "str(e)") ELSE e.row>>
          \o EnrichRows(Tail(rs), Tail(dps))

\* scrape_shopify_category, given what the listing extractor did (l) and
\* the detail pages of its rows: it raises when the listing extractor
\* raises (nothing catches that), else returns one record per row.
scrape_shopify_category(l, dps) ==
    IF l.raised THEN [raised |-> TRUE, rows |-> <<>>, out |-> <<>>]
    ELSE [raised |-> FALSE, rows |-> l.rows, out |-> EnrichRows(l.rows, dps)]

-----------------------------------------------------------------------------
(* Inputs *)

CategoryPool ==
    <<[name |-> <<"Marketing">>, description |-> <<"Grow">>,
       url  |-> <<HOST, "categories", "/", "marketing">>],
      [name |-> <<"Sales">>, description |-> <<>>,
       url  |-> <<HOST, "categories", "/", "sales">>],
      [name |-> <<"Design">>, description |-> <<>>,
       url  |-> <<HOST, "categories", "/", "design">>]>>

Link(href, text) == [href |-> href, text |-> text]

\* links of a category page in a run
RunLinks ==
    { Link(<<HOST, "app-x">>, <<"A", "p", "p", " ", "X">>),
      Link(<<HOST, "app-x", "/", "?", "ref=abc">>, <<>>),
      Link(<<HOST, "app-y">>, <<"A", "p", "p", " ", "Y">>) }

\* links of a category page given to the listing extractor alone
ListLinks ==
    RunLinks \cup
    { Link(<<HOST, "app-x", "/">>, <<"X">>),
      Link(<<HOST, "app-x", "?", "ref=abc">>, <<>>),
      Link(<<HOST, "app-y", "/", "reviews">>, <<"R">>),
      Link(<<HOST, "app-x", "#", "pricing">>, <<>>),
      Link(<<HOST, "categories", "/", "sales">>, <<"S", "a", "l", "e", "s">>),
      Link(<<HOST, "?", "ref=abc">>, <<>>) }

FailedPage ==
    [goto_ok |-> FALSE, h2 |-> FALSE, container |-> <<>>, sibling |-> <<>>]

NoHeadingPage ==
    [goto_ok |-> TRUE, h2 |-> FALSE, container |-> <<>>, sibling |-> <<>>]

PagesOver(L, n, S) ==
    {FailedPage, NoHeadingPage} \cup
    { [goto_ok |-> TRUE, h2 |-> TRUE, container |-> c, sibling |-> sb] :
        c \in SeqsUpTo(L, n), sb \in S }

RunPages == PagesOver(RunLinks, MaxLinks, {<<>>})

ListPages ==
    PagesOver(ListLinks, MaxListLinks,
              {<<>>} \cup {<<l>> : l \in RunLinks})

DetailPage(g, d, r, ds, p) ==
    [goto_ok |-> g, developer |-> d, rating |-> r, description |-> ds,
     price |-> p]

GoodDetailPage ==
    DetailPage(TRUE, "link", "data", "An app", "From $9.99/month")

\* detail pages met in a run
RunDetailPages ==
    { GoodDetailPage,
      DetailPage(FALSE, "absent", "nodata", "", ""),
      DetailPage(TRUE, "absent", "raise", "", "raise") }

\* detail pages given to enrich_product_row alone
DetailPages ==
    { DetailPage(FALSE, "absent", "nodata", "", "") } \cup
    { DetailPage(TRUE, d, r, ds, p) :
        d \in {"raise", "absent", "text", "link"},
        r \in {"raise", "nodata", "data"},
        ds \in {"raise", "", "An app"},
        p \in {"raise", "", "Free to install", "From $9.99/month"} }

\* texts of "main" on a detail page
TextFromMonthly == <<"From", " ", "$", "9.99", "/", "month">>
TextBareThenYearly ==
    <<"$", "5", " ", "setup", " ", "$", "9", " ", "per", " ", "year">>
TextLowerFrom == <<"Plans", " ", "from", "$", " ", "5">>
TextWeekly == <<"$", "5", "/", "week">>
TextNoAmount == <<"Costs", " ", "$", " ", "per", " ", "month">>

PriceTexts ==
    {TextFromMonthly, TextBareThenYearly, TextLowerFrom, TextWeekly,
     TextNoAmount, <<>>}

PricePages ==
    [closed : BOOLEAN, free_to_install : BOOLEAN, free_plan : BOOLEAN,
     main_found : BOOLEAN, main : PriceTexts]

Limits == 0..MaxLimit

-----------------------------------------------------------------------------
(* src/main.py: the category document and the selection of categories *)

\* a category document: whether the file is there, what its "categories"
\* key holds ("absent": no key or null, "notlist": not a list, "list"), and
\* the entries of the list
NavDoc(exists, kind, entries) ==
    [exists |-> exists, kind |-> kind, categories |-> entries]

\* lines 155-160: the entries that have a name and a url after stripping
RECURSIVE ValidEntries(_)
ValidEntries(cats) ==
    IF cats = <<>> THEN <<>>
    ELSE LET c == Head(cats)
             name == Strip(c.name, WS)
             url == Strip(c.url, WS)
             desc == Strip(c.description, WS)
         IN  (IF name # <<>> /\ url # <<>>
                THEN <<[name |-> name, url |-> url, description |-> desc]>>
                ELSE <<>>)
             \o ValidEntries(Tail(cats))

\* lines 138-164 with the three raise statements removed
load_categories_from_nav_unchecked(doc) ==
    [raised |-> "None", out |-> ValidEntries(doc.categories)]

\* lines 138-164
load_categories_from_nav(doc) ==
    IF ~doc.exists THEN [raised |-> "FileNotFoundError", out |-> <<>>]
    ELSE IF doc.kind # "list" \/ doc.categories = <<>>
      THEN [raised |-> "ValueError", out |-> <<>>]
    ELSE IF ValidEntries(doc.categories) = <<>>
      THEN [raised |-> "ValueError", out |-> <<>>]
    ELSE [raised |-> "None", out |-> ValidEntries(doc.categories)]

\* lines 172-177: selection by 1-based index
RECURSIVE PickByIndex(_, _)
PickByIndex(all_categories, sel) ==
    IF sel = <<>> THEN <<>>
    ELSE (IF 1 <= Head(sel) /\ Head(sel) <= Len(all_categories)
            THEN <<all_categories[Head(sel)]>> ELSE <<>>)
         \o PickByIndex(all_categories, Tail(sel))

\* lines 167-186, for an empty selection or a selection by index
select_categories(all_categories, sel, maxc) ==
    LET cats == IF sel # <<>> THEN PickByIndex(all_categories, sel)
                ELSE all_categories
    IN  IF maxc > 0 THEN SubSeq(cats, 1, Min(maxc, Len(cats))) ELSE cats

\* entries of a category document: two well-formed ones (the first with
\* blanks around its name), one whose name is blank, one without url
NavEntries ==
    { [name |-> <<" ">> \o CategoryPool[1].name \o <<" ">>,
       url |-> CategoryPool[1].url,
       description |-> CategoryPool[1].description],
      CategoryPool[2],
      [name |-> <<" ">>, url |-> CategoryPool[3].url, description |-> <<>>],
      [name |-> CategoryPool[3].name, url |-> <<>>, description |-> <<>>] }

NavDocs ==
    { NavDoc(FALSE, "absent", <<>>), NavDoc(TRUE, "absent", <<>>),
      NavDoc(TRUE, "notlist", <<>>) }
    \cup { NavDoc(TRUE, "list", es) : es \in SeqsUpTo(NavEntries, MaxNavEntries) }

\* the category document that holds CategoryPool
PoolDoc == NavDoc(TRUE, "list", CategoryPool)

MaxCategoriesDefault == 1   \* _get_int(limits_cfg, ..., default=1)

-----------------------------------------------------------------------------
(* src/main.py: run_shopify_actor, from the category loop on *)

\* lines 405-407 with the membership test lost
IsDuplicateNever(url, seenSet) == FALSE

\* lines 405-407: a record is skipped when its URL is not empty and seen
IsDuplicate(url, seenSet) == url # <<>> /\ url \in seenSet

RunIdle ==
    /\ nav_data = PoolDoc /\ selected_categories = <<>>
    /\ max_categories = MaxCategoriesDefault /\ browser = None
    /\ pc = "idle" /\ categories = <<>> /\ products_per_category = 0
    /\ export_on = FALSE /\ cidx = 1 /\ rows = <<>> /\ detail = <<>>
    /\ apps = <<>> /\ aidx = 1 /\ pushed = 0 /\ seen_urls = {}
    /\ skipped_dupes = 0 /\ per_cat_results = <<>>
    /\ all_results_for_files = <<>> /\ category_stats = <<>>
    /\ dataset = <<>> /\ total_fed = 0 /\ summary = None

\* lines 377-395: the state when the category loop is entered
RunInit ==
    /\ pc = "loop"
    /\ nav_data = PoolDoc /\ browser = "launched"
    /\ \E n \in 0..MaxCats :
         /\ max_categories = n
         /\ selected_categories =
              (IF n = 0 THEN <<Len(CategoryPool) + 1>> ELSE <<>>)
         /\ categories = SubSeq(CategoryPool, 1, n)
    /\ products_per_category \in Limits
    /\ export_on \in BOOLEAN
    /\ cidx = 1 /\ rows = <<>> /\ detail = <<>> /\ apps = <<>> /\ aidx = 1
    /\ pushed = 0 /\ seen_urls = {} /\ skipped_dupes = 0
    /\ per_cat_results = <<>> /\ all_results_for_files = <<>>
    /\ category_stats = <<>> /\ dataset = <<>> /\ total_fed = 0
    /\ summary = None

\* lines 310-349 and 377-383: the state when the category document is
\* about to be loaded; max_categories has its default
StartInit ==
    /\ pc = "config"
    /\ nav_data \in NavDocs
    /\ selected_categories \in {<<>>, <<2>>}
    /\ max_categories = MaxCategoriesDefault
    /\ browser = None
    /\ categories = <<>>
    /\ products_per_category \in Limits
    /\ export_on \in BOOLEAN
    /\ cidx = 1 /\ rows = <<>> /\ detail = <<>> /\ apps = <<>> /\ aidx = 1
    /\ pushed = 0 /\ seen_urls = {} /\ skipped_dupes = 0
    /\ per_cat_results = <<>> /\ all_results_for_files = <<>>
    /\ category_stats = <<>> /\ dataset = <<>> /\ total_fed = 0
    /\ summary = None

\* lines 361-363: the category document is loaded and the categories are
\* selected; an exception of load_categories_from_nav leaves
\* run_shopify_actor
LoadCategories ==
    /\ pc = "config"
    /\ LET r == load_categories_from_nav(nav_data)
       IN  IF r.raised # "None"
             THEN pc' = "config_error" /\ UNCHANGED categories
             ELSE /\ categories' = select_categories(r.out,
                                     selected_categories, max_categories)
                  /\ pc' = "launch"
    /\ UNCHANGED <<startVars, products_per_category, export_on, cidx, rows,
                   detail, apps, aidx, pushed, seen_urls, skipped_dupes,
                   per_cat_results, all_results_for_files, category_stats,
                   dataset, total_fed, summary>>
    /\ UNCHANGED otherThanRun

\* lines 389-395: the browser is launched, outside the try statement
LaunchBrowser ==
    /\ pc = "launch"
    /\ \E ok \in BOOLEAN :
         IF ok THEN browser' = "launched" /\ pc' = "loop"
         ELSE pc' = "aborted" /\ UNCHANGED browser
    /\ UNCHANGED <<nav_data, selected_categories, max_categories, categories,
                   products_per_category, export_on, cidx, rows, detail, apps,
                   aidx, pushed, seen_urls, skipped_dupes, per_cat_results,
                   all_results_for_files, category_stats, dataset, total_fed,
                   summary>>
    /\ UNCHANGED otherThanRun

\* lines 398-402: the next category is scraped; an exception of
\* scrape_shopify_category leaves run_shopify_actor through its finally
ScrapeCategory ==
    /\ pc = "loop" /\ cidx <= Len(categories)
    /\ \E l \in { extract_products_from_category(pg, categories[cidx],
                                                 products_per_category) :
                   pg \in RunPages } :
             \E dps \in [1..Len(l.rows) -> RunDetailPages] :
               LET r == scrape_shopify_category(l, dps)
               IN  /\ pc' = IF r.raised THEN "aborted" ELSE "records"
                   /\ rows' = r.rows
                   /\ detail' = IF r.raised THEN <<>> ELSE dps
                   /\ apps' = r.out
    /\ aidx' = 1
    /\ per_cat_results' = <<>>
    /\ UNCHANGED <<categories, products_per_category, export_on, cidx, pushed,
                   seen_urls, skipped_dupes, all_results_for_files,
                   category_stats, dataset, total_fed, summary>>
    /\ UNCHANGED startVars
    /\ UNCHANGED otherThanRun

\* lines 404-416: one record of the category
AggregateRecord ==
    /\ pc = "records" /\ aidx <= Len(apps)
    /\ LET app_record == apps[aidx]
           url == Strip(app_record.products_url, WS)
       IN  /\ total_fed' = total_fed + 1
           /\ aidx' = aidx + 1
           /\ IF IsDuplicate(url, seen_urls)
                THEN /\ skipped_dupes' = skipped_dupes + 1
                     /\ UNCHANGED <<seen_urls, dataset, pushed,
                                    per_cat_results, all_results_for_files>>
                ELSE /\ seen_urls' = IF url # <<>> THEN seen_urls \cup {url}
                                     ELSE seen_urls
                     /\ dataset' = Append(dataset, app_record)
                     /\ pushed' = pushed + 1
                     /\ per_cat_results' = Append(per_cat_results, app_record)
                     /\ all_results_for_files' =
                          Append(all_results_for_files, app_record)
                     /\ UNCHANGED skipped_dupes
    /\ UNCHANGED <<pc, categories, products_per_category, export_on, cidx,
                   rows, detail, apps, category_stats, summary>>
    /\ UNCHANGED startVars
    /\ UNCHANGED otherThanRun

\* lines 418-443: the per-category export and its entry in category_stats
ExportCategory ==
    /\ pc = "records" /\ aidx > Len(apps)
    /\ category_stats' =
         IF export_on /\ per_cat_results # <<>>
           THEN Append(category_stats,
                       [category |-> categories[cidx].name,
                        items_exported |-> Len(per_cat_results)])
           ELSE category_stats
    /\ cidx' = cidx + 1
    /\ pc' = "loop"
    /\ UNCHANGED <<categories, products_per_category, export_on, rows, detail,
                   apps, aidx, pushed, seen_urls, skipped_dupes,
                   per_cat_results, all_results_for_files, dataset, total_fed,
                   summary>>
    /\ UNCHANGED startVars
    /\ UNCHANGED otherThanRun

\* lines 445-496: the combined export and the run summary
Finish ==
    /\ pc = "loop" /\ cidx > Len(categories)
    /\ summary' =
         [categories_selected |-> [k \in 1..Len(categories) |->
                                     categories[k].name],
          skipped_duplicates  |-> skipped_dupes,
          pushed_to_dataset   |-> pushed,
          per_category        |-> category_stats,
          combined_items      |-> Len(all_results_for_files)]
    /\ pc' = "done"
    /\ UNCHANGED <<categories, products_per_category, export_on, cidx, rows,
                   detail, apps, aidx, pushed, seen_urls, skipped_dupes,
                   per_cat_results, all_results_for_files, category_stats,
                   dataset, total_fed>>
    /\ UNCHANGED startVars
    /\ UNCHANGED otherThanRun

-----------------------------------------------------------------------------
(* extract_products_from_category and enrich_product_row called alone *)

NoListing == [raised |-> FALSE, rows |-> <<>>, debug |-> 0]

ListIdle ==
    lcall = [st |-> "idle", pg |-> FailedPage, category |-> CategoryPool[1],
             limit |-> 0, res |-> NoListing]

ListInit ==
    \E pg \in ListPages, c \in 1..2, lim \in Limits :
      lcall = [st |-> "ready", pg |-> pg, category |-> CategoryPool[c],
               limit |-> lim, res |-> NoListing]

ListingCall ==
    /\ lcall.st = "ready"
    /\ lcall' = [lcall EXCEPT
                   !.st = "returned",
                   !.res = extract_products_from_category(
                             lcall.pg, lcall.category, lcall.limit)]
    /\ UNCHANGED <<runVars, ecall, pcall, revVars>>

SampleRow ==
    NewRow(CategoryPool[1], <<"A", "p", "p", " ", "X">>, <<HOST, "app-x">>)

NoEnrich == [raised |-> FALSE, row |-> SampleRow]

EnrichIdle ==
    ecall = [st |-> "idle", row |-> SampleRow, dp |-> GoodDetailPage,
             res |-> NoEnrich]

EnrichInit ==
    \E dp \in DetailPages :
      ecall = [st |-> "ready", row |-> SampleRow, dp |-> dp, res |-> NoEnrich]

EnrichCall ==
    /\ ecall.st = "ready"
    /\ ecall' = [ecall EXCEPT
                   !.st = "returned",
                   !.res = enrich_product_row(ecall.row, ecall.dp)]
    /\ UNCHANGED <<runVars, lcall, pcall, revVars>>

NoPrice == [raised |-> FALSE, price |-> <<>>]

PriceIdle ==
    pcall = [st |-> "idle",
             pg |-> [closed |-> FALSE, free_to_install |-> FALSE,
                     free_plan |-> FALSE, main_found |-> FALSE, main |-> <<>>],
             res |-> NoPrice]

PriceInit ==
    \E pg \in PricePages : pcall = [st |-> "ready", pg |-> pg, res |-> NoPrice]

PriceCall ==
    /\ pcall.st = "ready"
    /\ pcall' = [pcall EXCEPT !.st = "returned", !.res = extract_price(pcall.pg)]
    /\ UNCHANGED <<runVars, lcall, ecall, revVars>>

-----------------------------------------------------------------------------
(* shopify/reviews_extractor.py: extract_shopify_reviews *)

JsonLdKeyLen == 80      \* r.get("review_text","")[:80]
DomKeyLen == 90         \* body[:90]
MinBodyLen == 40        \* if len(body) < 40: continue
ScanCap == 120          \* scan_limit = min(120, cards.count())

\* key = (title + "|" + text[:n]).strip()
ReviewKey(title, text, n) == Strip(title \o <<"|">> \o Prefix(text, n), WS)

\* Review texts on a page: title and body.  TailX and TailY agree on their
\* first 90 characters and differ after them; MidX agrees with them on the
\* first 80 characters only; Short has 39 characters.
BodyTailX == Rep("a", 90) \o <<"x">>
BodyTailY == Rep("a", 90) \o <<"y">>
BodyMidX  == Rep("a", 85) \o <<"x">>
BodyShort == Rep("a", 39)

Text(t, b) == [title |-> t, body |-> b]

ReviewPool ==
    { Text(<<"T">>, BodyTailX), Text(<<"T">>, BodyTailY),
      Text(<<"U">>, BodyMidX),  Text(<<"T">>, BodyShort) }

\* an entry of _extract_json_ld_reviews (lines 78-85)
JsonLdEntry(t) ==
    [review_title |-> t.title, review_text |-> t.body,
     review_date |-> "2024-01-01", reviewer |-> "Ann", rating |-> "5",
     source |-> "jsonld"]

JsonLdLists == {[k \in DOMAIN s |-> JsonLdEntry(s[k])] :
                  s \in SeqsUpTo(ReviewPool, MaxJsonLd)}

\* the cards a locator of the DOM pass matches, in document order
CardLists == SeqsUpTo(ReviewPool, MaxCards)

\* what the locator matches after a pagination click: the same cards, one
\* more card, or another page with one card
NextCardLists(cs) ==
    {cs} \cup {<<c>> : c \in ReviewPool}
    \cup {Append(cs, c) : c \in {x \in ReviewPool : Len(cs) < MaxCards}}

Apps ==
    { [app_url |-> <<HOST, "app-x">>, category_url |-> CategoryPool[1].url,
       app_name |-> <<"A", "p", "p", " ", "X">>, price |-> "$5/month"],
      [app_url |-> <<HOST, "app-x">>, category_url |-> CategoryPool[1].url,
       app_name |-> <<" ">>, price |-> ""] }

\* lines 130-141 and 208-219: the entry appended to reviews
ReviewRecord(a, title, text, date, reviewer, rating, source) ==
    [platform |-> "shopify", app_name |-> a.app_name, app_url |-> a.app_url,
     category_url |-> a.category_url, review_title |-> title,
     review_text |-> text, review_date |-> date, reviewer |-> reviewer,
     rating |-> rating, source |-> source]

\* what the last pagination step saw: kw is whether "Reviews" is in the
\* page content, lm and nx what the "Load more" and "Next" controls did
\* ("none": absent, "ok": clicked, "fail": the click raised); "unseen" is a
\* test the step did not reach
Unseen == [kw |-> "unseen", lm |-> "unseen", nx |-> "unseen"]

RStat0 ==
    [debug |-> 0, reveal_clicks |-> 0, scans |-> 0, clicks |-> 0,
     timed_out |-> FALSE, handler |-> FALSE, pag |-> Unseen]

RevIdle ==
    /\ rpc = "idle" /\ app = CHOOSE a \in Apps : a.price # ""
    /\ max_reviews = 0 /\ max_pages = 0 /\ jsonld_reviews = <<>> /\ jidx = 1
    /\ reviews = <<>> /\ seen = {} /\ clock = 0 /\ pidx = 0 /\ cards = <<>>
    /\ scan_limit = 0 /\ i = 1 /\ rstat = RStat0

\* lines 106-109: the call is entered; the page holds its structured
\* reviews and its first cards
RevInit ==
    /\ rpc = "start"
    /\ app \in Apps
    /\ max_reviews \in Limits
    /\ max_pages \in 0..MaxPages
    /\ jsonld_reviews \in JsonLdLists
    /\ cards \in CardLists
    /\ jidx = 1 /\ reviews = <<>> /\ seen = {} /\ clock = 0 /\ pidx = 0
    /\ scan_limit = 0 /\ i = 1 /\ rstat = RStat0

RevReturn == rpc' = "done"

\* lines 112-124 with the tests of lines 116 and 120 removed
RevStartOverwrite ==
    /\ rpc = "start"
    /\ \E page_price \in {"", "Free plan"},
          h1 \in {<<"A", "p", "p">>, <<"(unknown app)">>} :
         app' = [app EXCEPT !.price = page_price, !.app_name = h1]
    /\ rpc' = "jsonld"
    /\ UNCHANGED <<max_reviews, max_pages, jsonld_reviews, jidx, reviews,
                   seen, clock, pidx, cards, scan_limit, i, rstat>>
    /\ UNCHANGED otherThanReviews

\* lines 112-124: navigation, backfill of price and name, structured read
RevStart ==
    /\ rpc = "start"
    /\ \E page_price \in {"", "Free plan"},
          h1 \in {<<"A", "p", "p">>, <<"(unknown app)">>} :
         app' = [app EXCEPT
                   !.price = IF app.price = "" THEN page_price ELSE @,
                   !.app_name = IF app.app_name = <<>>
                                   \/ Strip(app.app_name, WS) = <<>>
                                THEN h1 ELSE @]
    /\ rpc' = "jsonld"
    /\ UNCHANGED <<max_reviews, max_pages, jsonld_reviews, jidx, reviews,
                   seen, clock, pidx, cards, scan_limit, i, rstat>>
    /\ UNCHANGED otherThanReviews

\* lines 125-141 without the return of lines 142-143
RevJsonLdNoReturn ==
    /\ rpc = "jsonld" /\ jidx <= Len(jsonld_reviews)
    /\ LET r == jsonld_reviews[jidx]
           key == ReviewKey(r.review_title, r.review_text, JsonLdKeyLen)
       IN  IF key = <<>> \/ key \in seen
             THEN UNCHANGED <<reviews, seen>>
             ELSE /\ seen' = seen \cup {key}
                  /\ reviews' = Append(reviews,
                        ReviewRecord(app, r.review_title, r.review_text,
                                     r.review_date, r.reviewer, r.rating,
                                     r.source))
    /\ jidx' = jidx + 1
    /\ UNCHANGED <<rpc, app, max_reviews, max_pages, jsonld_reviews, clock,
                   pidx, cards, scan_limit, i, rstat>>
    /\ UNCHANGED otherThanReviews

\* lines 125-143: one structured review
RevJsonLd ==
    /\ rpc = "jsonld" /\ jidx <= Len(jsonld_reviews)
    /\ LET r == jsonld_reviews[jidx]
           key == ReviewKey(r.review_title, r.review_text, JsonLdKeyLen)
       IN  IF key = <<>> \/ key \in seen
             THEN /\ jidx' = jidx + 1
                  /\ UNCHANGED <<rpc, reviews, seen>>
             ELSE /\ seen' = seen \cup {key}
                  /\ reviews' = Append(reviews,
                        ReviewRecord(app, r.review_title, r.review_text,
                                     r.review_date, r.reviewer, r.rating,
                                     r.source))
                  /\ IF Len(reviews') >= max_reviews
                       THEN RevReturn /\ UNCHANGED jidx
                       ELSE jidx' = jidx + 1 /\ UNCHANGED rpc
    /\ UNCHANGED <<app, max_reviews, max_pages, jsonld_reviews, clock, pidx,
                   cards, scan_limit, i, rstat>>
    /\ UNCHANGED otherThanReviews

\* lines 146-162: the reviews tab is clicked if there is one (a failed
\* click is swallowed), the scroll coroutine is built and dropped, the
\* scope is chosen
RevReveal ==
    /\ rpc = "jsonld" /\ jidx > Len(jsonld_reviews)
    /\ \E tab \in {"none", "clicked", "failed"} :
         rstat' = [rstat EXCEPT !.reveal_clicks =
                     IF tab = "none" THEN @ ELSE @ + 1]
    /\ rpc' = "page"
    /\ pidx' = 0
    /\ UNCHANGED <<app, max_reviews, max_pages, jsonld_reviews, jidx, reviews,
                   seen, clock, cards, scan_limit, i>>
    /\ UNCHANGED otherThanReviews

\* line 164 exhausted, then line 248
RevLoopEnd ==
    /\ rpc = "page" /\ pidx >= max_pages
    /\ RevReturn
    /\ UNCHANGED <<app, max_reviews, max_pages, jsonld_reviews, jidx, reviews,
                   seen, clock, pidx, cards, scan_limit, i, rstat>>
    /\ UNCHANGED otherThanReviews

\* lines 165-167: the deadline check at the top of an iteration
RevPageTimeout ==
    /\ rpc = "page" /\ pidx < max_pages
    /\ clock > TimeBudget
    /\ rstat' = [rstat EXCEPT !.timed_out = TRUE]
    /\ RevReturn
    /\ UNCHANGED <<app, max_reviews, max_pages, jsonld_reviews, jidx, reviews,
                   seen, clock, pidx, cards, scan_limit, i>>
    /\ UNCHANGED otherThanReviews

\* lines 169-178: the cards are located and counted
RevScan ==
    /\ rpc = "page" /\ pidx < max_pages
    /\ ~(clock > TimeBudget)
    /\ scan_limit' = Min(ScanCap, Len(cards))
    /\ i' = 1
    /\ IF scan_limit' = 0 /\ pidx = 0 /\ reviews = <<>>
         THEN /\ rstat' = [rstat EXCEPT
                             !.scans = @ + 1,
                             !.debug = save_debug_not_awaited(@)]
              /\ RevReturn
         ELSE /\ rstat' = [rstat EXCEPT !.scans = @ + 1]
              /\ rpc' = "card"
    /\ UNCHANGED <<app, max_reviews, max_pages, jsonld_reviews, jidx, reviews,
                   seen, clock, pidx, cards>>
    /\ UNCHANGED otherThanReviews

\* lines 181-182: the deadline check before a card leaves the card loop only
RevCardTimeout ==
    /\ rpc = "card" /\ i <= scan_limit
    /\ clock > TimeBudget
    /\ rstat' = [rstat EXCEPT !.timed_out = TRUE]
    /\ rpc' = "paginate"
    /\ UNCHANGED <<app, max_reviews, max_pages, jsonld_reviews, jidx, reviews,
                   seen, clock, pidx, cards, scan_limit, i>>
    /\ UNCHANGED otherThanReviews

\* lines 184-222: one card
RevCard ==
    /\ rpc = "card" /\ i <= scan_limit
    /\ ~(clock > TimeBudget)
    /\ LET body == Strip(cards[i].body, WS)
           title == Strip(cards[i].title, WS)
           key == ReviewKey(title, body, DomKeyLen)
       IN  IF Len(body) < MinBodyLen \/ key = <<>> \/ key \in seen
             THEN /\ i' = i + 1
                  /\ UNCHANGED <<rpc, reviews, seen>>
             ELSE /\ seen' = seen \cup {key}
                  /\ reviews' = Append(reviews,
                        ReviewRecord(app, title, body, "", "", "", "dom"))
                  /\ IF Len(reviews') >= max_reviews
                       THEN RevReturn /\ UNCHANGED i
                       ELSE i' = i + 1 /\ UNCHANGED rpc
    /\ UNCHANGED <<app, max_reviews, max_pages, jsonld_reviews, jidx, clock,
                   pidx, cards, scan_limit, rstat>>
    /\ UNCHANGED otherThanReviews

\* lines 224-246 with the "Next" control tried before "Load more"
RevPaginateNextFirst ==
    /\ \/ rpc = "card" /\ i > scan_limit
       \/ rpc = "paginate"
    /\ \E kw \in BOOLEAN, lm \in {"none", "ok", "fail"},
          nx \in {"none", "ok", "fail"}, next_cards \in NextCardLists(cards) :
         LET n == (IF kw /\ nx # "none" THEN 1 ELSE 0)
                  + (IF kw /\ nx # "ok" /\ lm # "none" THEN 1 ELSE 0)
             goes_on == kw /\ (lm = "ok" \/ nx = "ok")
             saw == [kw |-> IF kw THEN "yes" ELSE "no",
                     lm |-> IF kw /\ nx # "ok" THEN lm ELSE "unseen",
                     nx |-> IF kw THEN nx ELSE "unseen"]
         IN  /\ rstat' = [rstat EXCEPT !.clicks = @ + n, !.pag = saw]
             /\ IF goes_on
                  THEN /\ pidx' = pidx + 1
                       /\ cards' = next_cards
                       /\ rpc' = "page"
                  ELSE /\ RevReturn
                       /\ UNCHANGED <<pidx, cards>>
    /\ UNCHANGED <<app, max_reviews, max_pages, jsonld_reviews, jidx, reviews,
                   seen, clock, scan_limit, i>>
    /\ UNCHANGED otherThanReviews

\* lines 224-246, reached when the card loop ends or is left: kw is whether
\* "Reviews" is on the page, lm and nx what the "Load more" and "Next"
\* controls do ("none": absent, "ok": clicked, "fail": the click raised)
RevPaginate ==
    /\ \/ rpc = "card" /\ i > scan_limit
       \/ rpc = "paginate"
    /\ \E kw \in BOOLEAN, lm \in {"none", "ok", "fail"},
          nx \in {"none", "ok", "fail"}, next_cards \in NextCardLists(cards) :
         LET n == (IF kw /\ lm # "none" THEN 1 ELSE 0)
                  + (IF kw /\ lm # "ok" /\ nx # "none" THEN 1 ELSE 0)
             goes_on == kw /\ (lm = "ok" \/ nx = "ok")
             saw == [kw |-> IF kw THEN "yes" ELSE "no",
                     lm |-> IF kw THEN lm ELSE "unseen",
                     nx |-> IF kw /\ lm # "ok" THEN nx ELSE "unseen"]
         IN  /\ rstat' = [rstat EXCEPT !.clicks = @ + n, !.pag = saw]
             /\ IF goes_on
                  THEN /\ pidx' = pidx + 1
                       /\ cards' = next_cards
                       /\ rpc' = "page"
                  ELSE /\ RevReturn
                       /\ UNCHANGED <<pidx, cards>>
    /\ UNCHANGED <<app, max_reviews, max_pages, jsonld_reviews, jidx, reviews,
                   seen, clock, scan_limit, i>>
    /\ UNCHANGED otherThanReviews

\* lines 250-252: an exception anywhere inside the try reaches the handler,
\* which calls save_debug without awaiting it and returns reviews
RevFault ==
    /\ rpc \in {"start", "jsonld", "page", "card", "paginate"}
    /\ rstat' = [rstat EXCEPT !.handler = TRUE,
                              !.debug = save_debug_not_awaited(@)]
    /\ RevReturn
    /\ UNCHANGED <<app, max_reviews, max_pages, jsonld_reviews, jidx, reviews,
                   seen, clock, pidx, cards, scan_limit, i>>
    /\ UNCHANGED otherThanReviews

\* time passes while the call runs
Tick ==
    /\ rpc \in {"start", "jsonld", "page", "card", "paginate"}
    /\ clock < MaxClock
    /\ clock' = clock + 1
    /\ UNCHANGED <<rpc, app, max_reviews, max_pages, jsonld_reviews, jidx,
                   reviews, seen, pidx, cards, scan_limit, i, rstat>>
    /\ UNCHANGED otherThanReviews

-----------------------------------------------------------------------------
(* Specifications *)

InitRun == RunInit /\ ListIdle /\ EnrichIdle /\ PriceIdle /\ RevIdle

NextRun == ScrapeCategory \/ AggregateRecord \/ ExportCategory \/ Finish

SpecRun == InitRun /\ [][NextRun]_vars

InitStartup == StartInit /\ ListIdle /\ EnrichIdle /\ PriceIdle /\ RevIdle

NextStartup ==
    \/ LoadCategories \/ LaunchBrowser \/ ScrapeCategory \/ AggregateRecord
    \/ ExportCategory \/ Finish

SpecStartup == InitStartup /\ [][NextStartup]_vars

InitListing == RunIdle /\ ListInit /\ EnrichIdle /\ PriceIdle /\ RevIdle

SpecListing == InitListing /\ [][ListingCall]_vars

InitEnrich == RunIdle /\ ListIdle /\ EnrichInit /\ PriceIdle /\ RevIdle

SpecEnrich == InitEnrich /\ [][EnrichCall]_vars

InitPrice == RunIdle /\ ListIdle /\ EnrichIdle /\ PriceInit /\ RevIdle

SpecPrice == InitPrice /\ [][PriceCall]_vars

InitReviews == RunIdle /\ ListIdle /\ EnrichIdle /\ PriceIdle /\ RevInit

NextReviews ==
    \/ RevStart \/ RevJsonLd \/ RevReveal \/ RevLoopEnd \/ RevPageTimeout
    \/ RevScan \/ RevCardTimeout \/ RevCard \/ RevPaginate \/ RevFault
    \/ Tick

SpecReviews == InitReviews /\ [][NextReviews]_vars

\* extract_shopify_reviews is sequential code that runs on once entered:
\* a step that can be taken is eventually taken
SpecReviewsFair == SpecReviews /\ WF_vars(NextReviews)

-----------------------------------------------------------------------------
(* Claims *)

ListingKeys ==
    {"apps_category", "apps_url", "description", "recommended_product",
     "products_url"}

\* the detail page makes enrich_product_row raise: the navigation, the
\* description or the price fails (lines 147, 174, 175 are not guarded)
EnrichFaults(dp) ==
    ~dp.goto_ok \/ dp.description = "raise" \/ dp.price = "raise"

\* C1: the records retained by the aggregation loop have pairwise distinct
\* item URLs, and skipped_dupes is the number of records fed minus the
\* number of records retained, at every point of the run and at its end.
C1_DedupCount ==
    /\ \A a, b \in 1..Len(all_results_for_files) :
         all_results_for_files[a].products_url
           = all_results_for_files[b].products_url => a = b
    /\ skipped_dupes = total_fed - Len(all_results_for_files)
    /\ pc = "done" => summary.skipped_duplicates
                        = total_fed - summary.combined_items

\* a finished run of two categories that fed the same item twice
C1_Witness ==
    /\ pc = "done" /\ skipped_dupes > 0
    /\ Len(all_results_for_files) >= 2
    /\ total_fed >= 3

\* C4: a fault while a category is processed never leaves the category loop:
\* the run never ends with categories unprocessed and no summary.
C4_FaultContained ==
    ~(pc = "aborted" /\ cidx <= Len(categories) /\ summary = None)

\* C5: scrape_shopify_category returns one record per listed row, in the
\* listing's order, and the record of a row whose enrichment raised carries
\* enrich_error.
C5_OneRecordPerRow ==
    pc = "records" =>
      /\ Len(apps) = Len(rows)
      /\ \A k \in 1..Len(rows) :
           /\ \A f \in ListingKeys : apps[k][f] = rows[k][f]
           /\ EnrichFaults(detail[k]) => Has(apps[k], "enrich_error")

\* two rows were listed and the enrichment of one of them raised
C5_Witness ==
    /\ pc = "records" /\ Len(rows) = 2
    /\ \E k \in 1..2 : EnrichFaults(detail[k]) /\ ~EnrichFaults(detail[3 - k])

\* C6: when the rating step raised and enrich_product_row returned, the
\* record has the developer name, description and price the other steps
\* found, rating and reviews_count are None and reviews_scrape_error is
\* set; the marker is absent when the rating step did not raise.
C6_PartialEnrichment ==
    (ecall.st = "returned" /\ ~ecall.res.raised) =>
      LET r == ecall.res.row
          dp == ecall.dp
      IN  /\ dp.rating = "raise" =>
               /\ Has(r, "reviews_scrape_error")
               /\ r.rating = None /\ r.reviews_count = None
               /\ r.developer_name =
                    (IF dp.developer \in {"text", "link"} THEN "Dev Inc"
                     ELSE None)
               /\ r.Product_description = dp.description
               /\ r.Price = dp.price
          /\ dp.rating # "raise" => ~Has(r, "reviews_scrape_error")

\* the rating step raised on a page that has developer, description, price
C6_Witness ==
    /\ ecall.st = "returned" /\ ~ecall.res.raised
    /\ ecall.dp.rating = "raise" /\ ecall.dp.developer = "link"
    /\ ecall.dp.description = "An app"
    /\ ecall.dp.price = "From $9.99/month"

\* C7: on a loaded category page whose recommended container and next
\* sibling hold no app link, the listing extractor returns the empty
\* sequence and does not raise.
C7_EmptyListing ==
    (/\ lcall.st = "returned" /\ lcall.pg.goto_ok /\ lcall.pg.h2
     /\ lcall.pg.container = <<>> /\ lcall.pg.sibling = <<>>)
    => (~lcall.res.raised /\ lcall.res.rows = <<>>)

\* the call returned on a page with the heading and no link
C7_Witness ==
    /\ lcall.st = "returned" /\ lcall.pg.goto_ok /\ lcall.pg.h2
    /\ lcall.pg.container = <<>> /\ lcall.pg.sibling = <<>>
    /\ lcall.res.debug = 1

\* the links the listing extractor enumerates on a page
LinksOf(pg) == IF Len(pg.container) = 0 THEN pg.sibling ELSE pg.container

Eligible(l) ==
    /\ l.href # <<>> /\ Head(l.href) = HOST
    /\ SlugOf(l.href) # <<>> /\ SlugOf(l.href) \notin NonItemSlugs

\* index of the first link of the page that yields the item URL u
FirstLink(pg, u) ==
    CHOOSE k \in 1..Len(LinksOf(pg)) :
      /\ Eligible(LinksOf(pg)[k])
      /\ ProductUrl(SlugOf(LinksOf(pg)[k].href)) = u
      /\ \A m \in 1..(k - 1) :
           ~(Eligible(LinksOf(pg)[m])
             /\ ProductUrl(SlugOf(LinksOf(pg)[m].href)) = u)

C8_NameUrlOrder ==
    (lcall.st = "returned" /\ ~lcall.res.raised) =>
      LET rs == lcall.res.rows
      IN  /\ \A k \in 1..Len(rs) : rs[k].apps_category = lcall.category.name
          /\ \A a, b \in 1..Len(rs) :
               a < b => /\ rs[a].products_url # rs[b].products_url
                        /\ FirstLink(lcall.pg, rs[a].products_url)
                             < FirstLink(lcall.pg, rs[b].products_url)

\* C8: for every page and every limit the returned records carry the
\* category's name, have pairwise distinct item URLs, are in page order of
\* their first eligible link and are at most limit; with limit 2 and two
\* links of two different items there are exactly 2.
C8_ListingContract ==
    /\ C8_NameUrlOrder
    /\ (lcall.st = "returned" /\ ~lcall.res.raised) =>
         LET rs == lcall.res.rows
             ls == LinksOf(lcall.pg)
         IN  /\ Len(rs) <= lcall.limit
             /\ (/\ lcall.limit = 2 /\ lcall.pg.h2 /\ Len(ls) = 2
                 /\ Eligible(ls[1]) /\ Eligible(ls[2])
                 /\ SlugOf(ls[1].href) # SlugOf(ls[2].href))
                => Len(rs) = 2

\* C2: extract_shopify_reviews never returns more than max_reviews entries.
C2_AtMostMaxReviews ==
    rpc = "done" => Len(reviews) <= max_reviews

\* C3: no two returned reviews have the same title and the same first 90
\* characters of body, whichever pass each of them came from.
C3_TitleBodyPrefixUnique ==
    rpc = "done" =>
      \A a, b \in 1..Len(reviews) :
        (/\ reviews[a].review_title = reviews[b].review_title
         /\ Prefix(reviews[a].review_text, DomKeyLen)
              = Prefix(reviews[b].review_text, DomKeyLen))
        => a = b

\* C9: when a failure ended the harvest, the call has returned (the handler
\* returns reviews) and a diagnostic capture has been performed.
C9_FailureCaptured ==
    rstat.handler => (rpc = "done" /\ rstat.debug > 0)

\* C10: once a deadline check has found the budget exceeded, no review is
\* appended, no card scan is started and no pagination control is clicked.
C10_StopsAtDeadline ==
    [][rstat.timed_out =>
         /\ reviews' = reviews
         /\ rstat'.scans = rstat.scans
         /\ rstat'.clicks = rstat.clicks]_vars

\* number of entries of reviews that came from the structured pass
JsonLdCount ==
    Cardinality({k \in 1..Len(reviews) : reviews[k].source = "jsonld"})

\* C11: the entries of the structured pass stay in reviews ahead of every
\* DOM entry (reviews only grows at its end), and once the structured pass
\* has appended an entry that brings reviews to max_reviews the call has
\* returned with no reveal click, no card scan, no pagination click and no
\* DOM entry.
C11_StructuredFirst ==
    /\ [](/\ \A a, b \in 1..Len(reviews) :
               (a < b /\ reviews[b].source = "jsonld")
                 => reviews[a].source = "jsonld"
          /\ (JsonLdCount >= 1 /\ JsonLdCount >= max_reviews) =>
               /\ rpc = "done"
               /\ JsonLdCount = Len(reviews)
               /\ rstat.reveal_clicks = 0 /\ rstat.scans = 0
               /\ rstat.clicks = 0)
    /\ [][/\ Len(reviews') >= Len(reviews)
          /\ SubSeq(reviews', 1, Len(reviews)) = reviews]_vars

\* two structured reviews filled max_reviews = 2 and the call returned
C11_Witness ==
    /\ rpc = "done" /\ ~rstat.handler /\ max_reviews = 2
    /\ JsonLdCount = 2 /\ Len(reviews) = 2
    /\ Len(cards) > 0

\* C12: a category whose listing returned no items contributes no record,
\* does not end the run, and has an entry in category_stats with
\* items_exported = 0.
C12_SoftFailInStats ==
    (pc \in {"loop", "done"} /\ cidx > 1 /\ rows = <<>>) =>
      /\ per_cat_results = <<>>
      /\ category_stats # <<>>
      /\ category_stats[Len(category_stats)]
           = [category |-> categories[cidx - 1].name, items_exported |-> 0]

RECURSIVE SumExported(_)
SumExported(stats) ==
    IF stats = <<>> THEN 0
    ELSE Head(stats).items_exported + SumExported(Tail(stats))

\* C14: every item URL is pushed once, whatever the number of categories
\* listing it; the records of a category's result list are the records
\* pushed while that category was processed (so the lists of different
\* categories share no record); and at the end of the run the pushed count,
\* the combined export count and the sum of the per-category exported
\* counts are equal.
C14_PushedOnceCountsAgree ==
    /\ \A a, b \in 1..Len(dataset) :
         dataset[a].products_url = dataset[b].products_url => a = b
    /\ pushed = Len(dataset)
    /\ LET n == Len(all_results_for_files)
           m == Len(per_cat_results)
       IN  m <= n /\ SubSeq(all_results_for_files, n - m + 1, n)
                       = per_cat_results
    /\ pc = "done" =>
         /\ summary.pushed_to_dataset = summary.combined_items
         /\ summary.pushed_to_dataset = SumExported(summary.per_category)

\* the category document is missing, has no "categories" list, has an empty
\* one, or has no entry with both a name and a url
BadNav(doc) ==
    \/ ~doc.exists
    \/ doc.kind # "list"
    \/ doc.categories = <<>>
    \/ \A k \in 1..Len(doc.categories) :
         \/ Strip(doc.categories[k].name, WS) = <<>>
         \/ Strip(doc.categories[k].url, WS) = <<>>

\* C13: with such a category document the run ends in a fatal error when the
\* document is loaded: the browser has not been launched, no category page
\* has been listed, nothing has been pushed or exported and no summary has
\* been written.
C13_BadNavFatalBeforeLaunch ==
    (BadNav(nav_data) /\ pc # "config") =>
      /\ pc = "config_error"
      /\ browser = None
      /\ categories = <<>> /\ cidx = 1 /\ rows = <<>> /\ apps = <<>>
      /\ pushed = 0 /\ dataset = <<>> /\ total_fed = 0
      /\ all_results_for_files = <<>> /\ category_stats = <<>>
      /\ summary = None

\* the document is there and lists two entries, neither with name and url
C13_Witness ==
    /\ pc = "config_error" /\ nav_data.exists /\ nav_data.kind = "list"
    /\ Len(nav_data.categories) = 2

\* item links as the store writes them without decoration
PlainItemUrls == {<<HOST, "app-x">>, <<HOST, "app-y">>}

\* a link, and the same link with a trailing slash and/or a query string
SlashQueryVariants(u) ==
    {u, u \o <<"/">>, u \o <<"?", "ref=abc">>, u \o <<"/", "?", "ref=abc">>}

\* C15: the links of a page that are an item link with or without a
\* trailing slash and a query string yield one record, whose item URL is
\* the undecorated link; the record is there unless the limit was reached.
C15_SlashQuerySameKey ==
    (lcall.st = "returned" /\ ~lcall.res.raised) =>
      \A u \in PlainItemUrls :
        LET ls == LinksOf(lcall.pg)
            rs == lcall.res.rows
            hits == {k \in 1..Len(ls) : ls[k].href \in SlashQueryVariants(u)}
            recs == {k \in 1..Len(rs) :
                       rs[k].products_url \in SlashQueryVariants(u)}
        IN  /\ Cardinality(recs) <= 1
            /\ \A k \in recs : rs[k].products_url = u
            /\ (lcall.pg.h2 /\ hits # {} /\ Len(rs) < lcall.limit)
                 => recs # {}

\* '<host>/app-x/?ref=abc' and '<host>/app-x' on one page gave one record
C15_Witness ==
    /\ lcall.st = "returned" /\ lcall.limit = 2
    /\ lcall.pg.h2 /\ Len(lcall.pg.container) = 2
    /\ lcall.pg.container[1].href = <<HOST, "app-x", "/", "?", "ref=abc">>
    /\ lcall.pg.container[2].href = <<HOST, "app-x">>
    /\ Len(lcall.res.rows) = 1
    /\ lcall.res.rows[1].products_url = <<HOST, "app-x">>

\* C18: every item URL is the host followed by one path segment, with no
\* slash, query or fragment, and no two records of a call have the same
\* first path segment: links that differ only in query string, fragment,
\* trailing slash or further path segments yield one record.
C18_FirstSegmentOnly ==
    (lcall.st = "returned" /\ ~lcall.res.raised) =>
      LET rs == lcall.res.rows
      IN  /\ \A k \in 1..Len(rs) :
               LET u == rs[k].products_url
               IN  /\ Len(u) = 2 /\ u[1] = HOST
                   /\ u[2] \notin {"/", "?", "#"}
          /\ \A a, b \in 1..Len(rs) :
               rs[a].products_url[2] = rs[b].products_url[2] => a = b

\* C19: whenever the listing extractor returns the empty sequence, for
\* whichever reason, save_debug has been called during the call.
C19_EmptyResultCaptured ==
    (lcall.st = "returned" /\ ~lcall.res.raised /\ lcall.res.rows = <<>>)
      => lcall.res.debug >= 1

\* C17: on a detail page that loaded, enrich_product_row returns whichever
\* of its steps raise, and the record it returns has the result of every
\* step that did not raise: developer, rating and reviews, description,
\* price.
C17_EveryStepIsolated ==
    (ecall.st = "returned" /\ ecall.dp.goto_ok) =>
      LET r == ecall.res.row
          dp == ecall.dp
      IN  /\ ~ecall.res.raised
          /\ Has(r, "developer_name") /\ Has(r, "reviews_source")
          /\ dp.description # "raise" => r.Product_description = dp.description
          /\ dp.price # "raise" => r.Price = dp.price

\* the first "$<number>" with a billing period in a text of PriceTexts, and
\* its first "$<number>", each with a "From" that precedes it
PeriodPriceIn(t) ==
    CASE t = TextFromMonthly -> <<"From", " ", "$", "9.99", "/", "month">>
      [] t = TextBareThenYearly -> <<"$", "9", " ", "per", " ", "year">>
      [] OTHER -> <<>>

BarePriceIn(t) ==
    CASE t = TextFromMonthly -> <<"From", " ", "$", "9.99">>
      [] t = TextBareThenYearly -> <<"$", "5">>
      [] t = TextLowerFrom -> <<"from", "$", " ", "5">>
      [] t = TextWeekly -> <<"$", "5">>
      [] OTHER -> <<>>

\* C16: _extract_price returns "Free to install" when that phrase is on the
\* page, whatever amounts are there; else "Free plan" when that phrase is;
\* else the "$<number>" with a billing period of the main text, in
\* preference to a bare "$<number>" ("From $9.99/month" gives
\* "From $9.99/month"); else the bare price; else the empty string.
C16_PriceFallbackOrder ==
    (pcall.st = "returned" /\ ~pcall.res.raised) =>
      LET pg == pcall.pg
      IN  pcall.res.price =
            (IF pg.free_to_install THEN <<"Free", " ", "to", " ", "install">>
             ELSE IF pg.free_plan THEN <<"Free", " ", "plan">>
             ELSE IF pg.main_found /\ PeriodPriceIn(pg.main) # <<>>
               THEN PeriodPriceIn(pg.main)
             ELSE IF pg.main_found THEN BarePriceIn(pg.main)
             ELSE <<>>)

\* the main text "From $9.99/month" on a page without a free phrase
C16_Witness ==
    /\ pcall.st = "returned" /\ ~pcall.res.raised
    /\ ~pcall.pg.free_to_install /\ ~pcall.pg.free_plan
    /\ pcall.pg.main_found /\ pcall.pg.main = TextFromMonthly
    /\ pcall.res.price = <<"From", " ", "$", "9.99", "/", "month">>

\* C20: the DOM pass performs at most max_pages iterations, and a
\* pagination step decides in this order: without the "Reviews" keyword the
\* pass ends and no control is tried; else a successful "Load more" click
\* starts the next iteration and "Next" is not tried; else a successful
\* "Next" click starts the next iteration; else the pass ends.
C20_BoundedPagination ==
    /\ [](pidx <= max_pages /\ rstat.scans <= max_pages)
    /\ [][(/\ rpc = "paginate" \/ (rpc = "card" /\ i > scan_limit)
           /\ rpc' # rpc /\ ~rstat'.handler)
          => LET d == rstat'.pag
                 next_iteration == rpc' = "page" /\ pidx' = pidx + 1
                 ends == rpc' = "done" /\ pidx' = pidx
             IN  /\ d.kw \in {"yes", "no"}
                 /\ d.kw = "no" =>
                      /\ ends /\ d.lm = "unseen" /\ d.nx = "unseen"
                      /\ rstat'.clicks = rstat.clicks
                 /\ d.kw = "yes" => d.lm \in {"none", "ok", "fail"}
                 /\ d.lm = "ok" => next_iteration /\ d.nx = "unseen"
                 /\ (d.kw = "yes" /\ d.lm # "ok") =>
                      /\ d.nx \in {"none", "ok", "fail"}
                      /\ d.nx = "ok" => next_iteration
                      /\ d.nx # "ok" => ends]_vars

\* under SpecReviewsFair: every call returns
Terminates == <>(rpc = "done")

\* two iterations were made with max_pages = 2: the last pagination step
\* found "Load more" failing and "Next" working, and the loop was exhausted
C20_Witness ==
    /\ rpc = "done" /\ ~rstat.handler /\ ~rstat.timed_out
    /\ max_pages = 2 /\ pidx = 2 /\ rstat.scans = 2
    /\ rstat.pag = [kw |-> "yes", lm |-> "fail", nx |-> "ok"]

\* C21: no step of extract_shopify_reviews changes a price that is set or
\* a name that is not blank, and no step changes app_url, category_url or
\* the set of fields of the item record; so a populated price or name has
\* after the call the value it had before it.
C21_BackfillOnlyUnset ==
    [][/\ app.price # "" => app'.price = app.price
       /\ Strip(app.app_name, WS) # <<>> => app'.app_name = app.app_name
       /\ app'.app_url = app.app_url
       /\ app'.category_url = app.category_url
       /\ DOMAIN app' = DOMAIN app]_vars

\* the call ran to its end on a record whose price and name were populated
\* and whose page offered reviews
C21_Witness ==
    /\ rpc = "done" /\ ~rstat.handler /\ rstat.scans >= 1
    /\ app.price = "$5/month"
    /\ app.app_name = <<"A", "p", "p", " ", "X">>
    /\ Len(reviews) >= 1

====
